---- MODULE Spec2Model ----
(***************************************************************************)
(* The HTTP service of src/app.ts: an express application with a global    *)
(* middleware chain (JSON / urlencoded body parsers, cors, /docs, morgan), *)
(* the POST /extract-text upload-and-OCR pipeline (multer disk storage in  *)
(* the system temporary directory, tesseract.js), GET /api, GET /, the     *)
(* 404 middleware and the error middleware.                                *)
(*                                                                         *)
(* Each request is a process that moves through the chain; the only state  *)
(* shared between requests is the temporary directory `disk`.              *)
(***************************************************************************)
EXTENDS Integers, Sequences, FiniteSets, TLC

\* ------------------------------------------------------------------ bounds
\* Number of requests the server receives in one behaviour.
NumReqs == 2

Reqs == 1..NumReqs

\* ------------------------------------------------------- program constants
\* A limit of 50 MB written where 5 MB was meant.
fileSizeFifty == 50 * 1024 * 1024

\* limits.fileSize of the multer instance.
fileSize == 5 * 1024 * 1024

\* allowedTypes of fileFilter.
allowedTypes == {"image/jpeg", "image/png"}

\* ------------------------------------------------------------ input domains
Methods == {"GET", "POST", "OPTIONS"}

Paths == {"/", "/api", "/extract-text", "/docs", "/does-not-exist"}

\* What the request carries as a body: nothing, a body sent as
\* application/json that does not parse, or multipart/form-data.
Bodies == {"none", "badjson", "multipart"}

MimeTypes == {"image/png", "image/jpeg", "text/plain"}

OriginalNames == {"photo.png", "scan.png"}

\* Contents of an uploaded file: an image showing HELLO, an image showing no
\* text at all, and bytes that are no image.
Contents == {"helloImage", "blankImage", "corruptBytes"}

\* A file of exactly 5 MiB and one a byte longer.
Sizes == {5 * 1024 * 1024, 5 * 1024 * 1024 + 1}

\* The multipart `file` part of a request; NoFile when there is none.
NoFile == [absent |-> TRUE]

FileParts ==
  [originalname : OriginalNames, mimetype : MimeTypes,
   size : Sizes, content : Contents]

\* Requests without a multipart body, to any method and path, and multipart
\* uploads to POST /extract-text with or without a `file` part.
Requests ==
  [method : Methods, path : Paths, body : Bodies \ {"multipart"},
   file : {NoFile}]
  \cup
  [method : {"POST"}, path : {"/extract-text"}, body : {"multipart"},
   file : FileParts \cup {NoFile}]

NoReq == [absent |-> TRUE]

\* What a path of tempDir holds: nothing, the first fileSize bytes of an
\* upload that hit the size limit, or a whole upload.
Absent == "absent"

Truncated == "truncated"

VARIABLES
  pc,            \* where each request is in the chain
  req,           \* the request each process carries
  disk,          \* tempDir: stored file name -> what it holds
  reqFile,       \* req.file as multer leaves it (NoFile when undefined)
  handlerRan,    \* whether the /extract-text route handler was entered
  engine,        \* Tesseract.recognize for the request: idle/running/returned
  engineCalls,   \* how many times the request invoked the engine
  engineOutcome, \* how the engine call settled
  adapterResult, \* how extractTextFromImage settled
  readContent,   \* what the engine found at the path it was given
  res            \* the responses sent for the request, in order

vars ==
  <<pc, req, disk, reqFile, handlerRan, engine, engineCalls, engineOutcome,
    adapterResult, readContent, res>>

\* ---------------------------------------------------------------- responses
Send(status, type, body) == [status |-> status, type |-> type, body |-> body]

NoFileResponse ==
  Send(400, "json",
       [success |-> FALSE,
        message |-> "No file uploaded. Only jpg and png types accepted"])

UnknownErrorResponse ==
  Send(400, "json", [success |-> FALSE, message |-> "Unknown error occured"])

SuccessResponse(data) ==
  Send(200, "json",
       [success |-> TRUE, message |-> "Image text extracted successfully",
        data |-> data])

ApiResponse(upstreamStatus) ==
  Send(200, "json",
       [message |-> "Demo API called (httpbin.org)", data |-> upstreamStatus])

ApiFailedResponse ==
  Send(500, "json", [error |-> "Failed to call external API"])

LiveResponse == Send(200, "json", [message |-> "API is Live!"])

NotFoundResponse ==
  Send(404, "json", [success |-> FALSE, message |-> "API route does not exist"])

\* The error middleware: status 500 whatever the error, its message echoed.
ErrorResponse(message) ==
  Send(500, "json", [success |-> FALSE, status |-> 500, message |-> message])

\* cors() answers every OPTIONS request itself (preflight), with no body.
PreflightResponse == Send(204, "none", [empty |-> TRUE])

\* swagger-ui serves its page under /docs.
DocsResponse == Send(200, "html", [page |-> "swagger-ui"])

Init ==
  /\ pc = [r \in Reqs |-> "idle"]
  /\ req = [r \in Reqs |-> NoReq]
  /\ disk = [n \in OriginalNames |-> Absent]
  /\ reqFile = [r \in Reqs |-> NoFile]
  /\ handlerRan = [r \in Reqs |-> FALSE]
  /\ engine = [r \in Reqs |-> "idle"]
  /\ engineCalls = [r \in Reqs |-> 0]
  /\ engineOutcome = [r \in Reqs |-> [settled |-> FALSE]]
  /\ adapterResult = [r \in Reqs |-> [settled |-> FALSE]]
  /\ readContent = [r \in Reqs |-> Absent]
  /\ res = [r \in Reqs |-> <<>>]

\* ----------------------------------------------- the global middleware chain
\* express.json(): a body sent as application/json that is no JSON document
\* makes the parser pass an error on; the text is the parser's.
JsonParserFails(q) == q.body = "badjson"

JsonParseErrorMessage == "Unexpected end of JSON input"

\* cors(): an OPTIONS request is a preflight and is answered at once.
CorsAnswers(q) == q.method = "OPTIONS"

\* app.use('/docs', ...): every method under /docs.
DocsMatches(q) == q.path = "/docs"

\* The routes registered with app.post / app.get.
Route(q) ==
  CASE q.method = "POST" /\ q.path = "/extract-text" -> "extract-text"
    [] q.method = "GET" /\ q.path = "/api" -> "api"
    [] q.method = "GET" /\ q.path = "/" -> "live"
    [] OTHER -> "none"

\* One response is sent for request r and the request is over.
Respond(r, response) ==
  /\ res' = [res EXCEPT ![r] = Append(@, response)]
  /\ pc' = [pc EXCEPT ![r] = "done"]

\* Request q runs down the chain to the first middleware or route that
\* answers it or that has to wait: express.json, express.urlencoded, cors,
\* /docs, morgan, the routes, the 404 middleware; an error passed on by any
\* of them goes to the error middleware.
Dispatch(r, q) ==
  IF JsonParserFails(q) THEN Respond(r, ErrorResponse(JsonParseErrorMessage))
  ELSE IF CorsAnswers(q) THEN Respond(r, PreflightResponse)
  ELSE IF DocsMatches(q) THEN Respond(r, DocsResponse)
  ELSE IF Route(q) = "live" THEN Respond(r, LiveResponse)
  ELSE IF Route(q) = "none" THEN Respond(r, NotFoundResponse)
  ELSE /\ pc' = [pc EXCEPT ![r] = IF Route(q) = "api" THEN "api" ELSE "multer"]
       /\ res' = res

\* A client sends a request and the application dispatches it.
Receive(r) ==
  /\ pc[r] = "idle"
  /\ \E q \in Requests :
       /\ req' = [req EXCEPT ![r] = q]
       /\ Dispatch(r, q)
  /\ UNCHANGED <<disk, reqFile, handlerRan, engine, engineCalls,
                 engineOutcome, adapterResult, readContent>>

\* ------------------------------------------------------------------ GET /api
\* The outbound call settles: with a status of the upstream, or with an error.
UpstreamStatuses == {200}

ApiReturn(r) ==
  /\ pc[r] = "api"
  /\ \/ \E s \in UpstreamStatuses : Respond(r, ApiResponse(s))
     \/ Respond(r, ApiFailedResponse)
  /\ UNCHANGED <<req, disk, reqFile, handlerRan, engine, engineCalls,
                 engineOutcome, adapterResult, readContent>>

\* ------------------------------------------------------ upload.single('file')
\* A filter that accepts every part (cb(null, true) on both branches).
fileFilterAcceptAll(file) == file.mimetype = file.mimetype

\* fileFilter: cb(null, true) for an allowed type, cb(null, false) otherwise.
fileFilter(file) == file.mimetype \in allowedTypes

\* storage.filename: the client's file name, in tempDir.
filename(r, file) == file.originalname

LimitErrorMessage == "File too large"

\* multer reads the multipart body.  A part the filter refuses is skipped; an
\* accepted part is written to tempDir/<filename> and attached as req.file.
\* A part longer than limits.fileSize is cut at the limit while it is written.
Upload(r) ==
  /\ pc[r] = "multer"
  /\ LET file == req[r].file IN
       IF req[r].body # "multipart" \/ file = NoFile \/ ~fileFilter(file)
       THEN /\ pc' = [pc EXCEPT ![r] = "handler"]
            /\ UNCHANGED <<disk, reqFile>>
       ELSE IF file.size > fileSize
       THEN /\ disk' = [disk EXCEPT ![filename(r, file)] = Truncated]
            /\ pc' = [pc EXCEPT ![r] = "limit"]
            /\ UNCHANGED reqFile
       ELSE /\ disk' = [disk EXCEPT ![filename(r, file)] = file.content]
            /\ reqFile' = [reqFile EXCEPT ![r] =
                             [path |-> filename(r, file),
                              originalname |-> file.originalname,
                              mimetype |-> file.mimetype,
                              size |-> file.size]]
            /\ pc' = [pc EXCEPT ![r] = "handler"]
  /\ UNCHANGED <<req, handlerRan, engine, engineCalls, engineOutcome,
                 adapterResult, readContent, res>>

\* The size limit was hit: multer removes what it stored and passes the error
\* on; no route handler runs and the error middleware answers.
UploadLimit(r) ==
  /\ pc[r] = "limit"
  /\ disk' = [disk EXCEPT ![filename(r, req[r].file)] = Absent]
  /\ Respond(r, ErrorResponse(LimitErrorMessage))
  /\ UNCHANGED <<req, reqFile, handlerRan, engine, engineCalls, engineOutcome,
                 adapterResult, readContent>>

\* ------------------------------------------------------- Tesseract.recognize
\* The text the engine recognizes in an image.
RecognizedText(content) ==
  CASE content = "helloImage" -> "HELLO"
    [] content = "blankImage" -> ""

\* How the engine call settles on what it finds at the path: it rejects when
\* the file is gone, cut short or no image, or on a fault of its own, and
\* resolves with the recognized text otherwise.
Recognize(content, fault) ==
  IF fault \/ content \in {Absent, Truncated, "corruptBytes"}
  THEN [settled |-> TRUE, ok |-> FALSE]
  ELSE [settled |-> TRUE, ok |-> TRUE, text |-> RecognizedText(content)]

\* ------------------------------------------------------- the extraction adapter
\* The adapter with its catch block rethrowing (throw Error(error.message)).
extractTextFromImageRethrow(outcome) ==
  IF outcome.ok
  THEN [settled |-> TRUE, threw |-> FALSE, type |-> "string", str |-> outcome.text]
  ELSE [settled |-> TRUE, threw |-> TRUE]

\* try { return text } catch { return false }
extractTextFromImage(outcome) ==
  IF outcome.ok
  THEN [settled |-> TRUE, threw |-> FALSE, type |-> "string", str |-> outcome.text]
  ELSE [settled |-> TRUE, threw |-> FALSE, type |-> "boolean", bool |-> FALSE]

\* JavaScript's !v for the values the adapter returns.
Not(v) == IF v.type = "boolean" THEN ~v.bool ELSE v.str = ""

\* ---------------------------------------------------- POST /extract-text handler
\* The handler calling the adapter without await: the pending promise is
\* truthy, so the success envelope goes out while the engine still runs.
ExtractTextHandlerNoAwait(r) ==
  /\ pc[r] = "handler"
  /\ handlerRan' = [handlerRan EXCEPT ![r] = TRUE]
  /\ IF reqFile[r] = NoFile
     THEN /\ Respond(r, NoFileResponse)
          /\ UNCHANGED <<engine, engineCalls>>
     ELSE /\ engine' = [engine EXCEPT ![r] = "running"]
          /\ engineCalls' = [engineCalls EXCEPT ![r] = @ + 1]
          /\ pc' = [pc EXCEPT ![r] = "ocr"]
          /\ res' = [res EXCEPT ![r] = Append(@, SuccessResponse("[object Promise]"))]
  /\ UNCHANGED <<req, disk, reqFile, engineOutcome, adapterResult, readContent>>

\* The handler up to its await: without req.file it answers 400; with one it
\* calls the adapter, which invokes the engine on req.file.path, and waits.
ExtractTextHandler(r) ==
  /\ pc[r] = "handler"
  /\ handlerRan' = [handlerRan EXCEPT ![r] = TRUE]
  /\ IF reqFile[r] = NoFile
     THEN /\ Respond(r, NoFileResponse)
          /\ UNCHANGED <<engine, engineCalls>>
     ELSE /\ engine' = [engine EXCEPT ![r] = "running"]
          /\ engineCalls' = [engineCalls EXCEPT ![r] = @ + 1]
          /\ pc' = [pc EXCEPT ![r] = "ocr"]
          /\ res' = res
  /\ UNCHANGED <<req, disk, reqFile, engineOutcome, adapterResult, readContent>>

\* What the handler sends once the adapter has settled; a raised error is
\* caught by the handler's own try/catch.
HandlerResponse(result) ==
  IF result.threw THEN UnknownErrorResponse
  ELSE IF Not(result) THEN UnknownErrorResponse
  ELSE SuccessResponse(result.str)

\* The engine reads the file at req.file.path and settles; the adapter and
\* then the handler resume and the response is sent.
OcrReturn(r) ==
  /\ pc[r] = "ocr"
  /\ \E fault \in BOOLEAN :
       LET content == disk[reqFile[r].path]
           outcome == Recognize(content, fault)
           result == extractTextFromImage(outcome)
       IN /\ readContent' = [readContent EXCEPT ![r] = content]
          /\ engineOutcome' = [engineOutcome EXCEPT ![r] = outcome]
          /\ adapterResult' = [adapterResult EXCEPT ![r] = result]
          /\ engine' = [engine EXCEPT ![r] = "returned"]
          /\ Respond(r, HandlerResponse(result))
  /\ UNCHANGED <<req, disk, reqFile, handlerRan, engineCalls>>

Next ==
  \E r \in Reqs :
    \/ Receive(r)
    \/ ApiReturn(r)
    \/ Upload(r)
    \/ UploadLimit(r)
    \/ ExtractTextHandler(r)
    \/ OcrReturn(r)

Spec == Init /\ [][Next]_vars
\* ==================================================================== claims
\* What the claims speak of, written out independently of the model above.
Done(r) == pc[r] = "done"

\* r is a POST /extract-text request with a multipart `file` part.
IsUpload(r) ==
  /\ req[r] # NoReq
  /\ req[r].method = "POST" /\ req[r].path = "/extract-text"
  /\ req[r].body = "multipart" /\ req[r].file # NoFile

AcceptedType(r) == req[r].file.mimetype \in {"image/jpeg", "image/png"}

WithinLimit(r) == req[r].file.size <= 5 * 1024 * 1024

\* r's method and path match none of the routes the application registers.
Unmatched(r) ==
  /\ req[r] # NoReq
  /\ ~(req[r].method = "POST" /\ req[r].path = "/extract-text")
  /\ ~(req[r].method = "GET" /\ req[r].path = "/api")
  /\ ~(req[r].method = "GET" /\ req[r].path = "/")
  /\ req[r].path # "/docs"

Expect200Text(t) ==
  <<[status |-> 200, type |-> "json",
     body |-> [success |-> TRUE,
               message |-> "Image text extracted successfully", data |-> t]]>>

Expect400Unknown ==
  <<[status |-> 400, type |-> "json",
     body |-> [success |-> FALSE, message |-> "Unknown error occured"]]>>

Expect400NoFile ==
  <<[status |-> 400, type |-> "json",
     body |-> [success |-> FALSE,
               message |-> "No file uploaded. Only jpg and png types accepted"]]>>

Expect500TooLarge ==
  <<[status |-> 500, type |-> "json",
     body |-> [success |-> FALSE, status |-> 500, message |-> "File too large"]]>>

Expect200Live ==
  <<[status |-> 200, type |-> "json", body |-> [message |-> "API is Live!"]]>>

Expect404 ==
  <<[status |-> 404, type |-> "json",
     body |-> [success |-> FALSE, message |-> "API route does not exist"]]>>

\* C1: every answered POST /extract-text upload of an accepted type and of at
\* most 5 MiB got the 200 success envelope with the recognized text when the
\* engine succeeded and the 400 "Unknown error occured" envelope when the
\* engine failed, and never a 500.
C1_AcceptedUploadOutcome ==
  \A r \in Reqs :
    (Done(r) /\ IsUpload(r) /\ AcceptedType(r) /\ WithinLimit(r)) =>
      /\ engineOutcome[r].settled
      /\ engineOutcome[r].ok => res[r] = Expect200Text(engineOutcome[r].text)
      /\ ~engineOutcome[r].ok => res[r] = Expect400Unknown
      /\ \A i \in 1..Len(res[r]) : res[r][i].status # 500

\* C2: whenever the engine call succeeded with text t, the empty string
\* included, the adapter returned t as a success and the handler sent
\* 200 {success:true, message:"Image text extracted successfully", data:t}.
C2_SuccessReturnsText ==
  \A r \in Reqs :
    (engineOutcome[r].settled /\ engineOutcome[r].ok) =>
      /\ adapterResult[r] =
           [settled |-> TRUE, threw |-> FALSE, type |-> "string",
            str |-> engineOutcome[r].text]
      /\ res[r] = Expect200Text(engineOutcome[r].text)

\* C3: an upload whose MIME type is neither image/jpeg nor image/png never has
\* a file attached to the request and never reaches the engine, and the
\* response to it is 400 "No file uploaded. Only jpg and png types accepted".
C3_RejectedTypeNoFile ==
  \A r \in Reqs :
    (IsUpload(r) /\ ~AcceptedType(r)) =>
      /\ reqFile[r] = NoFile
      /\ engineCalls[r] = 0
      /\ Done(r) => res[r] = Expect400NoFile

\* C3's case: an upload of type text/plain, as large as one likes, was answered.
C3_Witness ==
  \E r \in Reqs :
    /\ Done(r) /\ IsUpload(r)
    /\ req[r].file.mimetype = "text/plain" /\ ~WithinLimit(r)
    /\ handlerRan[r] /\ res[r] = Expect400NoFile

\* C4: when the engine call failed, the adapter did not raise but returned the
\* failure sentinel false, and the handler sent 400 "Unknown error occured".
C4_EngineFailureIs400 ==
  \A r \in Reqs :
    (engineOutcome[r].settled /\ ~engineOutcome[r].ok) =>
      /\ adapterResult[r] =
           [settled |-> TRUE, threw |-> FALSE, type |-> "boolean", bool |-> FALSE]
      /\ res[r] = Expect400Unknown

\* C4's case: the engine failed on a stored upload and the request was answered.
C4_Witness ==
  \E r \in Reqs :
    /\ Done(r) /\ engineCalls[r] = 1
    /\ engineOutcome[r].settled /\ ~engineOutcome[r].ok
    /\ readContent[r] = "corruptBytes"

\* C5 as stated: an upload of more than 5 MiB never enters the route handler
\* nor the engine, and what answers it is no structured JSON response.
C5_OversizeNotJson ==
  \A r \in Reqs :
    (Done(r) /\ IsUpload(r) /\ ~WithinLimit(r)) =>
      /\ ~handlerRan[r]
      /\ engineCalls[r] = 0
      /\ \A i \in 1..Len(res[r]) : res[r][i].type # "json"

\* C5 amended: an upload of more than 5 MiB never reaches the engine; when its
\* type is accepted the route handler does not run and the error middleware
\* answers 500 {success:false, status:500, message:"File too large"} as JSON;
\* when its type is not accepted the handler runs and answers 400 "No file
\* uploaded. Only jpg and png types accepted".
C5_OversizeIsJson500 ==
  \A r \in Reqs :
    (IsUpload(r) /\ ~WithinLimit(r)) =>
      /\ engineCalls[r] = 0
      /\ reqFile[r] = NoFile
      /\ AcceptedType(r) => (~handlerRan[r] /\ (Done(r) => res[r] = Expect500TooLarge))
      /\ ~AcceptedType(r) => (Done(r) => (handlerRan[r] /\ res[r] = Expect400NoFile))

\* C5's case: an image/png upload a byte over 5 MiB was answered.
C5_Witness ==
  \E r \in Reqs :
    /\ Done(r) /\ IsUpload(r)
    /\ req[r].file.mimetype = "image/png" /\ ~WithinLimit(r)
    /\ Len(res[r]) = 1 /\ res[r][1].status = 500

\* C6: every answered GET / got 200 {message:"API is Live!"}, whatever its body.
C6_LiveAlways200 ==
  \A r \in Reqs :
    (Done(r) /\ req[r].method = "GET" /\ req[r].path = "/") =>
      res[r] = Expect200Live

\* C7: every answered request that matches no registered route, of any method,
\* got 404 {success:false, message:"API route does not exist"}.
C7_UnmatchedIs404 ==
  \A r \in Reqs : (Done(r) /\ Unmatched(r)) => res[r] = Expect404

\* C8: requests in flight do not share a stored upload: what the engine read
\* for a request is the content that same request uploaded, also when another
\* request uploaded a file of the same name.
C8_UploadNotShared ==
  \A r \in Reqs :
    engine[r] = "returned" => readContent[r] = req[r].file.content

\* C9: once a request that stored an upload is over (answered, on whichever
\* path of the handler), its temporary file is gone from the directory.
C9_UploadRemoved ==
  \A r \in Reqs :
    (Done(r) /\ reqFile[r] # NoFile) => disk[reqFile[r].path] = Absent

\* C10: within one request the engine is invoked at most once and only by the
\* handler with a stored file attached; at most one response is sent, exactly
\* one once the request is over, and none while the engine call is running;
\* a handler response without any engine call means no file was attached.
C10_Sequential ==
  \A r \in Reqs :
    /\ engineCalls[r] <= 1
    /\ (engineCalls[r] = 1) <=> (engine[r] # "idle")
    /\ engineCalls[r] = 1 => (handlerRan[r] /\ reqFile[r] # NoFile)
    /\ Len(res[r]) <= 1
    /\ Done(r) <=> Len(res[r]) = 1
    /\ Len(res[r]) = 1 => engine[r] # "running"
    /\ (handlerRan[r] /\ Done(r) /\ engine[r] = "idle") => reqFile[r] = NoFile

\* C10's case: a request stored its upload, called the engine once, the call
\* returned and the response followed.
C10_Witness ==
  \E r \in Reqs :
    /\ Done(r) /\ reqFile[r] # NoFile
    /\ engineCalls[r] = 1 /\ engine[r] = "returned" /\ Len(res[r]) = 1
====
